---- MODULE Spec2Model ----
(***************************************************************************)
(* A model of the py-spy monitoring harness, scripts/spy/monitor.py:       *)
(* main(), start_app_and_monitor(), wait_for_app_start(),                  *)
(* kill_process_tree(), signal_handler(), run_py_spy() and the sampling    *)
(* drivers, together with the operating-system processes they act on.      *)
(*                                                                         *)
(* The harness is one thread; pc is its position.  The environment (the    *)
(* launched service, its worker processes, a foreign service, the sampling *)
(* engine, the operator who interrupts) moves between any two of its       *)
(* steps.                                                                  *)
(***************************************************************************)
EXTENDS Integers, Sequences, FiniteSets, TLC

(* ------------------------------ bounds -------------------------------- *)

\* Largest --timeout (seconds) an invocation is given.
MaxTimeout == 1

\* The timeout=30 that start_app_and_monitor passes (monitor.py line 241),
\* in seconds, scaled down: wait_for_app_start depends on it only through
\* the number of polls it allows.
StartTimeout == 1

(* --------------------------- program constants ------------------------ *)

\* time.sleep(0.5): polls per second of wait_for_app_start; the model's
\* clock counts polling intervals.
PollsPerSecond == 2

(* ------------------------------ universe ------------------------------ *)

\* Python's None.
None == "None"

\* The service launched by --start, the worker processes it may fork, a
\* service somebody else runs on the machine, and the sampling engine.
Workers == {"w1", "w2"}
Services == {"app", "ext"} \cup Workers
Procs == Services \cup {"spy"}

\* How a live process answers a termination request: it exits ("normal"),
\* it ignores or outlives SIGTERM ("stubborn"), or the OS refuses the
\* harness access to it ("denied": it runs as another user).  The harness
\* starts the service and the sampling engine as itself; a worker may have
\* changed user; the foreign service is never sent SIGTERM.
KindsOf(p) ==
    IF p \in Workers THEN {"normal", "stubborn", "denied"}
    ELSE IF p = "ext" THEN {"normal", "denied"}
    ELSE {"normal", "stubborn"}

\* The processes that may come to listen on the port: the service itself,
\* a worker of it (the two workers are alike in this), the foreign service.
Binders == {"app", "w1", "ext"}

VARIABLES
    platform,          \* sys.platform: "posix" or "win32"
    st,                \* process table: Procs -> "none" | "alive" | "dead",
                       \* or "failed" (the engine exited with a non-zero status)
    kind,              \* Procs -> kind of each live process
    listener,          \* the process in LISTEN state on the port, or None
    pc,                \* the harness's position
    mode,              \* "init" | "list" | "start" | "attach"
    sess,              \* sampling session: None | "top" | "record" | "dump"
    pid,               \* the local pid of main / start_app_and_monitor
    global_processes,  \* the module-level registry (a sequence of handles)
    wret,              \* who called wait_for_app_start: "start" | "main"
    tmo,               \* wait_for_app_start's timeout, in polling intervals
    timer,             \* time.time() - start_time, in polling intervals
    wres,              \* what wait_for_app_start returned: "unset", None, pid
    listenAt,          \* when the listener now on the port appeared, as the
                       \* wait saw the clock; -1 if there is none
    kpid,              \* kill_process_tree's argument
    kret,              \* its call site: "start_finally" | "monitor_except"
    children,          \* parent.children(recursive=True)
    alive,             \* the survivors wait_procs returned
    kidx,              \* loop index of the two for loops
    requested,         \* descendants terminate()/kill() was called on
    sent,              \* processes a signal of this call was delivered to
    parentReq,         \* a termination request was sent to kpid itself
    kAbsent,           \* kpid was not in the process table at entry
    exc,               \* exit status pending while the finally block runs
    exitCode,          \* the harness's exit status, -1 while it runs
    interrupted,       \* an external interrupt was delivered
    hreq,              \* handles signal_handler called terminate() on
    termEntered,       \* kill_process_tree(app_process.pid) was called
    sessCancelled,     \* an interrupt arrived during proc.wait() of a session
    args_pid,          \* args.pid, the --pid argument of an attach invocation
    args_wait,         \* args.wait, the --wait flag of an attach invocation
    launched,          \* how many times run_py_spy has called Popen
    timedOut           \* a wait_for_app_start of this run timed out

\* The report generator, scripts/spy/report.py.
VARIABLES
    suffix,            \* self.profile_file.suffix
    lines,             \* the lines of the artifact, as iterating the file
                       \* yields them (without the line terminator)
    matches,           \* _parse_svg: its local matches, what re.findall returned
    data,              \* self.data, in insertion order: <<name, count>> pairs
    ridx,              \* index of the next line _parse_json reads, or of the
                       \* next element of matches _parse_svg adds
    rpc,               \* the generator's position, "idle" if none runs
    ranked,            \* analyze(): its local sorted_data
    aidx,              \* analyze(): index in sorted_data[:50] of the next frame
    analysis,          \* analyze(): its dict analysis, returned at the end
    recommendations    \* what _generate_recommendations returned

reportVars ==
    <<suffix, lines, matches, data, ridx, rpc, ranked, aidx, analysis,
      recommendations>>

procVars == <<st, kind, listener>>
waitVars == <<wret, tmo, timer, wres, listenAt>>
killVars == <<kpid, kret, children, alive, kidx, requested, sent, parentReq, kAbsent>>
intVars == <<interrupted, hreq, sessCancelled>>
histVars == <<interrupted, hreq, sessCancelled, termEntered, timedOut>>
monitorVars == <<platform, args_pid, args_wait, launched, procVars, pc, mode, sess, pid,
                 global_processes, waitVars, killVars, exc, exitCode, histVars>>
vars == <<monitorVars, reportVars>>

(* --------------------------- the process table ------------------------ *)

IsAlive(p) == st[p] = "alive"

\* Processes of S that exit when a graceful termination request reaches
\* them.  psutil's and Popen's terminate() are TerminateProcess on win32,
\* which no process survives; SIGTERM ends only a process that honours it.
Yielding(S) ==
    {p \in S : IsAlive(p) /\ kind[p] # "denied"
                 /\ (platform = "win32" \/ kind[p] = "normal")}

\* Processes of S that a forced kill (SIGKILL, TerminateProcess) ends.
Killable(S) == {p \in S : IsAlive(p) /\ kind[p] # "denied"}

\* The processes of S exit: they leave the table and free the port.
Exits(S) ==
    /\ st' = [p \in Procs |-> IF p \in S THEN "dead" ELSE st[p]]
    /\ kind' = [p \in Procs |-> IF p \in S THEN "normal" ELSE kind[p]]
    /\ listener' = IF listener \in S THEN None ELSE listener

\* Process p comes to life with kind k.
Starts(p, k) ==
    /\ st' = [st EXCEPT ![p] = "alive"]
    /\ kind' = [kind EXCEPT ![p] = k]
    /\ listener' = listener

\* parent.children(recursive=True): the live workers of the launched
\* service, in the order the OS lists them; no other process has children.
ChildrenOf(p) ==
    IF p = "app" THEN SelectSeq(<<"w1", "w2">>, IsAlive) ELSE <<>>

\* A lookup that takes the launched service for the listener as soon as it
\* runs, whether or not it has bound the port.
find_process_by_port_spawned ==
    IF IsAlive("app") THEN "app"
    ELSE IF listener # None /\ kind[listener] # "denied" THEN listener
    ELSE None

\* find_process_by_port: the pid of the LISTEN connection on the port.
\* psutil reports conn.pid as None for a socket of a process the caller
\* may not inspect.
find_process_by_port ==
    IF listener # None /\ kind[listener] # "denied" THEN listener ELSE None

\* find_uvicorn_processes: the processes whose command line holds
\* "uvicorn", in enumeration order; one that cannot be read is skipped.
IsUvicorn(p) == IsAlive(p) /\ kind[p] # "denied"

find_uvicorn_processes == SelectSeq(<<"app", "ext">>, IsUvicorn)

(* ------------------------ report.py: strings -------------------------- *)

\* s[i:i+1], the character of s at position i (from 1).
Char(s, i) == SubSeq(s, i, i)

\* Python's `kw in s` for strings.
Contains(s, kw) ==
    \E i \in 1..(Len(s) - Len(kw) + 1) : SubSeq(s, i, i + Len(kw) - 1) = kw

UpperCase == "ABCDEFGHIJKLMNOPQRSTUVWXYZ"
LowerCase == "abcdefghijklmnopqrstuvwxyz"

\* str.lower() on the ASCII letters the artifacts use.
RECURSIVE lower(_)
lower(s) ==
    IF Len(s) = 0 THEN ""
    ELSE LET c == Char(s, 1)
             up == {i \in 1..Len(UpperCase) : Char(UpperCase, i) = c}
         IN (IF up = {} THEN c ELSE Char(LowerCase, CHOOSE i \in up : TRUE))
              \o lower(SubSeq(s, 2, Len(s)))

\* The characters str.strip() removes.
Whitespace == {" ", "\t", "\n", "\r"}

\* str.strip().
RECURSIVE strip(_)
strip(s) ==
    IF Len(s) = 0 THEN ""
    ELSE IF Char(s, 1) \in Whitespace THEN strip(SubSeq(s, 2, Len(s)))
    ELSE IF Char(s, Len(s)) \in Whitespace THEN strip(SubSeq(s, 1, Len(s) - 1))
    ELSE s

\* str.split(sep) for a one-character separator.
RECURSIVE split(_, _)
split(s, sep) ==
    LET at == {i \in 1..Len(s) : Char(s, i) = sep} IN
        IF at = {} THEN <<s>>
        ELSE LET i == CHOOSE i \in at : \A j \in at : i <= j
             IN <<SubSeq(s, 1, i - 1)>> \o split(SubSeq(s, i + 1, Len(s)), sep)

Digits == "0123456789"

IsDigits(s) ==
    Len(s) > 0 /\ \A i \in 1..Len(s) : Contains(Digits, Char(s, i))

\* The value of a string of decimal digits.
RECURSIVE DigitsValue(_)
DigitsValue(s) ==
    IF Len(s) = 0 THEN 0
    ELSE DigitsValue(SubSeq(s, 1, Len(s) - 1)) * 10
           + (CHOOSE d \in 0..9 : Char(Digits, d + 1) = Char(s, Len(s)))

\* int(s) returns a value: s is, between optional whitespace, an optional
\* sign and decimal digits.  Otherwise int(s) raises ValueError.
IsIntLiteral(s) ==
    LET t == strip(s) IN
        IF Len(t) > 0 /\ Char(t, 1) \in {"-", "+"}
        THEN IsDigits(SubSeq(t, 2, Len(t)))
        ELSE IsDigits(t)

int(s) ==
    LET t == strip(s) IN
        IF Char(t, 1) = "-" THEN 0 - DigitsValue(SubSeq(t, 2, Len(t)))
        ELSE IF Char(t, 1) = "+" THEN DigitsValue(SubSeq(t, 2, Len(t)))
        ELSE DigitsValue(t)

(* ---------------------- report.py: the generator ---------------------- *)

\* sorted_data[:50]: how many frames analyze() ranks and classifies.
TopLimit == 50

\* An assignment d[key] = n in place of d[key] += n.
DictSet(d, key, n) ==
    IF \E i \in DOMAIN d : d[i][1] = key
    THEN [i \in DOMAIN d |-> IF d[i][1] = key THEN <<key, n>> ELSE d[i]]
    ELSE Append(d, <<key, n>>)

\* A defaultdict(int), kept as its <<key, value>> pairs in insertion order;
\* d[key] += n inserts key with 0 first if it is new.
DictAdd(d, key, n) ==
    IF \E i \in DOMAIN d : d[i][1] = key
    THEN [i \in DOMAIN d |-> IF d[i][1] = key THEN <<key, d[i][2] + n>> ELSE d[i]]
    ELSE Append(d, <<key, n>>)

DictKeys(d) == {d[i][1] : i \in DOMAIN d}

\* d[key] read from a defaultdict(int) without inserting: 0 for a new key.
DictGet(d, key) ==
    IF key \in DictKeys(d)
    THEN d[CHOOSE i \in DOMAIN d : d[i][1] = key][2]
    ELSE 0

\* sum(d.values()).
RECURSIVE SumFirst(_, _)
SumFirst(d, n) == IF n = 0 THEN 0 ELSE SumFirst(d, n - 1) + d[n][2]

SumValues(d) == SumFirst(d, Len(d))

\* _parse_json, lines 55-60, for one line: the parts of the stripped line.
Parts(line) == split(strip(line), "\t")

\* The line passes both tests of lines 56 and 58.
Ingested(line) == Contains(line, "\t") /\ Len(Parts(line)) >= 2

\* A file name suffix load_data hands to _parse_json.
JsonSuffixes == {".json", ".raw"}

\* _parse_json over a whole file all of whose counts are numbers.
RECURSIVE ParseFirst(_, _)
ParseFirst(ls, n) ==
    IF n = 0 THEN <<>>
    ELSE LET parts == Parts(ls[n]) IN
         IF Contains(ls[n], "\t") /\ Len(parts) >= 2
         THEN DictAdd(ParseFirst(ls, n - 1), parts[1], int(parts[2]))
         ELSE ParseFirst(ls, n - 1)

parse_json(ls) == ParseFirst(ls, Len(ls))

\* A descending sort that puts, of two items with the same count, the one
\* met later first.
sorted_data_TiesReversed(d) ==
    [p \in DOMAIN d |->
        d[CHOOSE i \in DOMAIN d :
            Cardinality({j \in DOMAIN d :
                d[j][2] > d[i][2] \/ (d[j][2] = d[i][2] /\ j > i)}) = p - 1]]

\* sorted(self.data.items(), key=lambda x: x[1], reverse=True): a stable
\* sort by descending count.  The item at index i is preceded by the items
\* with a greater count and by those with the same count met before it.
Ahead(d, i) ==
    {j \in DOMAIN d : d[j][2] > d[i][2] \/ (d[j][2] = d[i][2] /\ j < i)}

sorted_data(d) ==
    [p \in DOMAIN d |-> d[CHOOSE i \in DOMAIN d : Cardinality(Ahead(d, i)) = p - 1]]

\* any(kw in func_lower for kw in kws).
AnyIn(kws, func_lower) == \E i \in DOMAIN kws : Contains(func_lower, kws[i])

\* The classification with the database test ahead of the async one.
_categorize_function_DatabaseFirst(func) ==
    LET func_lower == lower(func) IN
        IF AnyIn(<<"sql", "query", "mysql", "select", "insert">>, func_lower)
        THEN "database"
        ELSE IF AnyIn(<<"await", "coroutine", "async">>, func_lower)
        THEN "async_io"
        ELSE IF AnyIn(<<"redis", "cache", "get", "set">>, func_lower)
        THEN "cache"
        ELSE IF AnyIn(<<"uvicorn", "httptools", "request">>, func_lower)
        THEN "http"
        ELSE IF AnyIn(<<"security", "jwt", "auth">>, func_lower)
        THEN "security"
        ELSE IF AnyIn(<<"render", "template", "json">>, func_lower)
        THEN "serialization"
        ELSE "other"

\* The classification without the http rule.
_categorize_function_NoHttp(func) ==
    LET func_lower == lower(func) IN
        IF AnyIn(<<"await", "coroutine", "async">>, func_lower)
        THEN "async_io"
        ELSE IF AnyIn(<<"sql", "query", "mysql", "select", "insert">>, func_lower)
        THEN "database"
        ELSE IF AnyIn(<<"redis", "cache", "get", "set">>, func_lower)
        THEN "cache"
        ELSE IF AnyIn(<<"security", "jwt", "auth">>, func_lower)
        THEN "security"
        ELSE IF AnyIn(<<"render", "template", "json">>, func_lower)
        THEN "serialization"
        ELSE "other"

\* _categorize_function, lines 91-108.
_categorize_function(func) ==
    LET func_lower == lower(func) IN
        IF AnyIn(<<"await", "coroutine", "async">>, func_lower)
        THEN "async_io"
        ELSE IF AnyIn(<<"sql", "query", "mysql", "select", "insert">>, func_lower)
        THEN "database"
        ELSE IF AnyIn(<<"redis", "cache", "get", "set">>, func_lower)
        THEN "cache"
        ELSE IF AnyIn(<<"uvicorn", "httptools", "request">>, func_lower)
        THEN "http"
        ELSE IF AnyIn(<<"security", "jwt", "auth">>, func_lower)
        THEN "security"
        ELSE IF AnyIn(<<"render", "template", "json">>, func_lower)
        THEN "serialization"
        ELSE "other"

\* analysis["total_samples"], lines 68 and 72, and
\* analysis["unique_functions"], line 73, for self.data = d.
total_samples(d) == SumValues(d)
unique_functions(d) == Len(d)

\* The number of frames in sorted_data[:50].
TopCount(sorted) == IF Len(sorted) < TopLimit THEN Len(sorted) ELSE TopLimit

NoAnalysis ==
    [total_samples |-> 0, unique_functions |-> 0, top_functions |-> <<>>,
     categories |-> <<>>]

\* The comparison that also fires at the threshold itself.
Reaches(count, total, threshold) ==
    total > 0 /\ count * 100 >= threshold * total

\* percentage > threshold, where percentage is count / total * 100 if
\* total > 0 and 0 otherwise (line 165).  For counts of this size the
\* float quotient compares with the threshold as the exact one does.
Exceeds(count, total, threshold) ==
    total > 0 /\ count * 100 > threshold * total

\* The lines one category contributes, lines 167-185: a headline naming
\* the category and its advice lines.
Advice(category) ==
    IF category = "database"
    THEN <<"database", "database:n+1", "database:pool", "database:index">>
    ELSE IF category = "async_io"
    THEN <<"async_io", "async_io:blocking", "async_io:library">>
    ELSE <<"cache", "cache:hit_rate", "cache:local">>

Threshold(category) ==
    IF category = "database" THEN 20
    ELSE IF category = "async_io" THEN 30
    ELSE 15

\* The loop of lines 164-185 over categories.items().
RECURSIVE AdviceFirst(_, _, _)
AdviceFirst(categories, total, n) ==
    IF n = 0 THEN <<>>
    ELSE AdviceFirst(categories, total, n - 1)
           \o (IF categories[n][1] \in {"database", "async_io", "cache"}
                    /\ Exceeds(categories[n][2], total, Threshold(categories[n][1]))
               THEN Advice(categories[n][1]) ELSE <<>>)

ThresholdAdvice(categories, total) ==
    AdviceFirst(categories, total, Len(categories))

\* The recommendations without the early return for an empty total.
_generate_recommendations_NoZeroCase(a) ==
    LET recs == ThresholdAdvice(a.categories, a.total_samples) IN
        IF recs = <<>> THEN <<"no_bottleneck">> ELSE recs

\* _generate_recommendations, lines 155-190.
_generate_recommendations(a) ==
    IF a.total_samples = 0 THEN <<"insufficient_data">>
    ELSE LET recs == ThresholdAdvice(a.categories, a.total_samples) IN
         IF recs = <<>> THEN <<"no_bottleneck">> ELSE recs

(* ------------------- report.py: the flame-graph pattern ---------------- *)

\* f.read(): the lines of the file, each with its terminator.
RECURSIVE ContentFirst(_, _)
ContentFirst(ls, n) ==
    IF n = 0 THEN "" ELSE ContentFirst(ls, n - 1) \o ls[n] \o "\n"

Content(ls) == ContentFirst(ls, Len(ls))

\* The literal lit stands in c at position p.
At(c, p, lit) ==
    /\ p >= 1
    /\ p + Len(lit) - 1 <= Len(c)
    /\ SubSeq(c, p, p + Len(lit) - 1) = lit

\* The least element of a set of positions, none if the set is empty.
Least(S, none) == IF S = {} THEN none ELSE CHOOSE i \in S : \A j \in S : i <= j

\* The characters \s matches.
RegexSpace == {" ", "\t", "\n", "\r"}

\* <g[^>]*> from p: the position of the > that closes the tag, 0 if none.
TagEnd(c, p) == Least({q \in (p + 2)..Len(c) : Char(c, q) = ">"}, 0)

\* \s* from p: the position of the first character that is no space.
AfterSpace(c, p) ==
    Least({q \in p..Len(c) : Char(c, q) \notin RegexSpace}, Len(c) + 1)

\* Where <title> has to stand for a match that starts at p.
TitleStart(c, p) == AfterSpace(c, TagEnd(c, p) + 1)

\* The text between <title> and the next <: its first and last position
\* (the last is 0 if no < follows).
TextStart(c, p) == TitleStart(c, p) + Len("<title>")
TextEnd(c, p) ==
    Least({q \in TextStart(c, p)..Len(c) : Char(c, q) = "<"}, 1) - 1

\* \(\d+\s*samples stands at k, within the text that ends at e.
CountAt(c, k, e) ==
    /\ Char(c, k) = "("
    /\ \E m \in (k + 1)..e :
          /\ \A d \in (k + 1)..m : Contains(Digits, Char(c, d))
          /\ At(c, AfterSpace(c, m + 1), "samples")
          /\ AfterSpace(c, m + 1) + Len("samples") - 1 <= e

\* The ends of ([^<]+) from which the rest of the pattern matches; the
\* group is greedy and takes the greatest.
GroupEnds(c, p) ==
    {k - 1 : k \in {k \in (TextStart(c, p) + 1)..TextEnd(c, p) :
                      CountAt(c, k, TextEnd(c, p))}}

\* The pattern of line 41 matches c from position p.
MatchAt(c, p) ==
    /\ At(c, p, "<g")
    /\ TagEnd(c, p) # 0
    /\ At(c, TitleStart(c, p), "<title>")
    /\ TextEnd(c, p) >= TextStart(c, p)
    /\ At(c, TextEnd(c, p) + 1, "</title>")
    /\ GroupEnds(c, p) # {}

\* The group of the match that starts at p.
Group(c, p) ==
    SubSeq(c, TextStart(c, p),
           CHOOSE k \in GroupEnds(c, p) : \A j \in GroupEnds(c, p) : j <= k)

\* The starts of the matches re.findall reports: scanning from the left,
\* a match that starts inside the tag of an earlier one is skipped.
MatchStarts(c) ==
    LET starts == {p \in 1..Len(c) : MatchAt(c, p)} IN
        {p \in starts :
            \A q \in starts : q < p => TagEnd(c, q) # TagEnd(c, p)}

\* re.findall(pattern, content), line 42: the groups in the order of the
\* matches.
findall(c) ==
    LET starts == MatchStarts(c) IN
        [i \in 1..Cardinality(starts) |->
            Group(c, CHOOSE p \in starts :
                        Cardinality({q \in starts : q < p}) = i - 1)]

(* ----------------------- report.py: the artifacts --------------------- *)

\* Longest artifact, in lines, among those built from LinePool.
MaxLines == 3

\* The lines the artifacts are made of: a frame of each category the
\* classification knows by keyword, one with keywords of two categories, a
\* negative and a zero count, a line without a tab, a count that is no
\* number.
LinePool ==
    {"handle_request\t50", "run_query\t30", "await_io\t20",
     "async_query\t24", "Redis.GET\t6", "select\t10", "check_auth\t-10",
     "render_json\t0", "# py-spy", "main\tx"}

\* An artifact of k frames named f1 .. fk with one sample each.
WideArtifact(k) == [i \in 1..k |-> "f" \o ToString(i) \o "\t1"]

Artifacts ==
    UNION {[1..n -> LinePool] : n \in 0..MaxLines}
      \cup {WideArtifact(TopLimit), WideArtifact(TopLimit + 1)}

\* A line of a flame graph with a whole frame element: the title carries
\* the frame name and the number n of samples.
TitleLine(name, n) ==
    "<g><title>" \o name \o " (" \o ToString(n) \o " samples, 10.00%)</title><rect/></g>"

\* The opening tag of an element, on a line of its own, and a title that
\* stands on the line after it.
OpenTagLine == "<g class=func_g>"
BareTitleLine == "<title> await_io  (7 samples, 7.00%)</title>"

\* The lines the flame graphs are made of: the same frame with two sample
\* numbers, a frame whose name has a parenthesis, an element spread over
\* two lines, and a line the pattern does not match.
SvgLinePool ==
    {TitleLine("run_query", 30), TitleLine("run_query", 5),
     TitleLine("handle (api.py:7)", 50),
     OpenTagLine, BareTitleLine,
     "<svg><text>all (100 samples)</text></svg>"}

SvgArtifacts == UNION {[1..n -> SvgLinePool] : n \in 0..MaxLines}

\* No report generator runs.
ReportIdle ==
    /\ suffix = ""
    /\ lines = <<>>
    /\ matches = <<>>
    /\ data = <<>>
    /\ ridx = 1
    /\ rpc = "idle"
    /\ ranked = <<>>
    /\ aidx = 1
    /\ analysis = NoAnalysis
    /\ recommendations = <<>>

(* ------------------------------- Init --------------------------------- *)

\* The harness before main() runs.
MonitorInit ==
    /\ platform \in {"posix", "win32"}
    /\ \E e \in {"none", "alive"} :
          /\ st = [p \in Procs |-> IF p = "ext" THEN e ELSE "none"]
          /\ \E k \in (IF e = "alive" THEN KindsOf("ext") ELSE {"normal"}) :
                kind = [p \in Procs |-> IF p = "ext" THEN k ELSE "normal"]
          /\ listener \in (IF e = "alive" THEN {None, "ext"} ELSE {None})
    /\ pc = "main"
    /\ mode = "init"
    /\ sess = None
    /\ pid = None
    /\ global_processes = <<>>
    /\ wret = "main"
    /\ tmo = 0
    /\ timer = 0
    /\ wres = "unset"
    /\ listenAt = -1
    /\ kpid = None
    /\ kret = "start_finally"
    /\ children = <<>>
    /\ alive = <<>>
    /\ kidx = 1
    /\ requested = {}
    /\ sent = {}
    /\ parentReq = FALSE
    /\ kAbsent = FALSE
    /\ exc = -1
    /\ exitCode = -1
    /\ interrupted = FALSE
    /\ sessCancelled = FALSE
    /\ args_pid = None
    /\ args_wait = FALSE
    /\ launched = 0
    /\ hreq = {}
    /\ termEntered = FALSE
    /\ timedOut = FALSE

Init == MonitorInit /\ ReportIdle

(* ------------------------- control-flow helpers ----------------------- *)

Running == pc # "exited"

WaitPcs == {"wait_loop", "wait_sleep"}

\* Continue at position l.
Go(l) ==
    /\ pc' = l
    /\ UNCHANGED <<killVars, exc, exitCode, termEntered>>

\* The harness process ends with exit status code.
GoExit(code) ==
    /\ pc' = "exited"
    /\ exitCode' = code
    /\ UNCHANGED <<killVars, exc, termEntered>>

\* Call kill_process_tree(p) from call site `site`; `pending` is the exit
\* status of the exception the finally block re-raises afterwards, -1 if
\* there is none.
GoKill(p, site, pending) ==
    /\ pc' = "k_enter"
    /\ kpid' = p
    /\ kret' = site
    /\ exc' = pending
    /\ termEntered' = (termEntered \/ (site = "start_finally" /\ p = "app"))
    /\ UNCHANGED <<children, alive, kidx, requested, sent, parentReq, kAbsent, exitCode>>

\* Call wait_for_app_start(port, seconds) from `site`.
GoWait(site, seconds) ==
    /\ wret' = site
    /\ tmo' = seconds * PollsPerSecond
    /\ timer' = 0
    /\ wres' = "unset"
    /\ listenAt' = IF find_process_by_port # None THEN 0 ELSE -1
    /\ Go("wait_loop")

(* --------------------------- the environment -------------------------- *)

\* The launched service forks a worker process.
Fork(w) ==
    /\ Running
    /\ IsAlive("app")
    /\ st[w] = "none"
    /\ \E k \in KindsOf(w) : Starts(w, k)
    /\ UNCHANGED <<reportVars, platform, args_pid, args_wait, launched,
                   pc, mode, sess, pid, global_processes,
                   waitVars, killVars, exc, exitCode, histVars>>

\* Somebody starts a service of their own on the machine.
ExtStart ==
    /\ Running
    /\ st["ext"] = "none"
    /\ \E k \in KindsOf("ext") : Starts("ext", k)
    /\ UNCHANGED <<reportVars, platform, args_pid, args_wait, launched,
                   pc, mode, sess, pid, global_processes,
                   waitVars, killVars, exc, exitCode, histVars>>

\* A service process binds the port and listens.
Listen(p) ==
    /\ Running
    /\ IsAlive(p)
    /\ listener = None
    /\ listener' = p
    /\ listenAt' = IF pc \in WaitPcs /\ kind[p] # "denied" THEN timer ELSE listenAt
    /\ UNCHANGED <<reportVars, platform, args_pid, args_wait, launched,
                   st, kind, pc, mode, sess, pid, global_processes,
                   wret, tmo, timer, wres, killVars, exc, exitCode, histVars>>

\* A service process exits on its own (it finishes, crashes, or completes a
\* shutdown it was slow to perform).
ProcExit(p) ==
    /\ Running
    /\ IsAlive(p)
    /\ Exits({p})
    /\ listenAt' = IF pc \in WaitPcs /\ listener = p THEN -1 ELSE listenAt
    /\ UNCHANGED <<reportVars, platform, args_pid, args_wait, launched,
                   pc, mode, sess, pid, global_processes,
                   wret, tmo, timer, wres, killVars, exc, exitCode, histVars>>

\* The sampling engine exits (its duration elapsed, its target went away,
\* it failed), with exit status 0 ("dead") or not ("failed").
SpyExit ==
    /\ Running
    /\ IsAlive("spy")
    /\ \E status \in {"dead", "failed"} : st' = [st EXCEPT !["spy"] = status]
    /\ kind' = [kind EXCEPT !["spy"] = "normal"]
    /\ listener' = listener
    /\ UNCHANGED <<reportVars, platform, args_pid, args_wait, launched,
                   pc, mode, sess, pid, global_processes,
                   waitVars, killVars, exc, exitCode, histVars>>

(* -------------------------------- main -------------------------------- *)

\* main, lines 336-344: --list prints the discovered processes and returns.
MainList ==
    /\ pc = "main"
    /\ mode' = "list"
    /\ GoExit(0)
    /\ UNCHANGED <<reportVars, platform, args_pid, args_wait, launched,
                   procVars, sess, pid, global_processes, waitVars,
                   intVars, timedOut>>

\* main, lines 346-348: --start hands over to start_app_and_monitor.
MainStart ==
    /\ pc = "main"
    /\ mode' = "start"
    /\ Go("start_spawn")
    /\ UNCHANGED <<reportVars, platform, args_pid, args_wait, launched,
                   procVars, sess, pid, global_processes, waitVars,
                   intVars, timedOut>>

\* main, lines 350-361: the target is --pid if given, else the listener on
\* the port, else the first process found by its command line.
ResolvePid(pidArg) ==
    IF pidArg # None THEN pidArg
    ELSE IF find_process_by_port # None THEN find_process_by_port
    ELSE IF Len(find_uvicorn_processes) > 0 THEN find_uvicorn_processes[1]
    ELSE None

\* main, lines 350-361: with no target the harness exits with status 1.
MainResolve ==
    /\ pc = "main"
    /\ mode' = "attach"
    /\ args_wait' \in BOOLEAN
    /\ \E pidArg \in {None, "ext"} :
          /\ args_pid' = pidArg
          /\ pid' = ResolvePid(pidArg)
          /\ IF ResolvePid(pidArg) = None THEN GoExit(1) ELSE Go("main_wait")
    /\ UNCHANGED <<reportVars, platform, launched,
                   procVars, sess, global_processes, waitVars,
                   intVars, timedOut>>

\* main, lines 363-364: with --wait, wait for the port.
MainWait ==
    /\ pc = "main_wait"
    /\ args_wait
    /\ \E seconds \in 0..MaxTimeout : GoWait("main", seconds)
    /\ UNCHANGED <<reportVars, platform, args_pid, args_wait, launched,
                   procVars, mode, sess, pid, global_processes,
                   intVars, timedOut>>

\* main, lines 370-375: --dump, else --record, else the live view.
MainDispatch ==
    /\ pc = "main_dispatch" \/ (pc = "main_wait" /\ ~args_wait)
    /\ sess' \in {"dump", "record", "top"}
    /\ Go("spy_spawn")
    /\ UNCHANGED <<reportVars, platform, args_pid, args_wait, launched,
                   procVars, mode, pid, global_processes, waitVars,
                   intVars, timedOut>>

(* ------------------------ start_app_and_monitor ----------------------- *)

\* Lines 219-235: subprocess.Popen starts the service; the handle is not
\* yet stored anywhere.
StartSpawn ==
    /\ pc = "start_spawn"
    /\ \E k \in KindsOf("app") : Starts("app", k)
    /\ Go("start_spawned")
    /\ UNCHANGED <<reportVars, platform, args_pid, args_wait, launched,
                   mode, sess, pid, global_processes,
                   waitVars, intVars, timedOut>>

\* Line 237: global_processes.append(app_process).
StartRegister ==
    /\ pc = "start_spawned"
    /\ global_processes' = Append(global_processes, "app")
    /\ Go("start_registered")
    /\ UNCHANGED <<reportVars, platform, args_pid, args_wait, launched,
                   procVars, mode, sess, pid, waitVars, intVars, timedOut>>

\* Lines 239-241: the try block is entered and wait_for_app_start called.
StartTry ==
    /\ pc = "start_registered"
    /\ GoWait("start", StartTimeout)
    /\ UNCHANGED <<reportVars, platform, args_pid, args_wait, launched,
                   procVars, mode, sess, pid, global_processes,
                   intVars, timedOut>>

(* -------------------------- wait_for_app_start ------------------------ *)

\* Lines 75-80: while the timeout has not elapsed, poll the port; return
\* the pid found, sleep if there is none, return None after the loop.
WaitPoll ==
    /\ pc = "wait_loop"
    /\ IF timer < tmo
       THEN IF find_process_by_port # None
            THEN wres' = find_process_by_port /\ Go("wait_ret")
            ELSE wres' = wres /\ Go("wait_sleep")
       ELSE wres' = None /\ Go("wait_ret")
    /\ UNCHANGED <<reportVars, platform, args_pid, args_wait, launched,
                   procVars, mode, sess, pid, global_processes,
                   wret, tmo, timer, listenAt, intVars, timedOut>>

\* Line 79: time.sleep(0.5) runs to its end.
WaitSleep ==
    /\ pc = "wait_sleep"
    /\ timer' = timer + 1
    /\ Go("wait_loop")
    /\ UNCHANGED <<reportVars, platform, args_pid, args_wait, launched,
                   procVars, mode, sess, pid, global_processes,
                   wret, tmo, wres, listenAt, intVars, timedOut>>

\* The caller takes wait_for_app_start's result.
\*   start_app_and_monitor, lines 241-249: on None it prints the timeout
\*   and returns, through the finally block; otherwise monitor_top(pid).
\*   main, lines 364-368: on None it exits with status 1.
WaitReturn ==
    /\ pc = "wait_ret"
    /\ pid' = wres
    /\ timedOut' = (timedOut \/ wres = None)
    /\ tmo' = 0
    /\ timer' = 0
    /\ listenAt' = -1
    /\ IF wret = "start"
       THEN IF wres = None
            THEN GoKill("app", "start_finally", -1) /\ sess' = sess
            ELSE Go("spy_spawn") /\ sess' = "top"
       ELSE IF wres = None
            THEN GoExit(1) /\ sess' = sess
            ELSE Go("main_dispatch") /\ sess' = sess
    /\ UNCHANGED <<reportVars, platform, args_pid, args_wait, launched,
                   procVars, mode, global_processes, wret, wres, intVars>>

(* ------------------- run_py_spy and the sampling drivers --------------- *)

\* Lines 134-151: subprocess.Popen starts the sampling engine.
SpySpawn ==
    /\ pc = "spy_spawn"
    /\ \E k \in KindsOf("spy") : Starts("spy", k)
    /\ launched' = launched + 1
    /\ Go("spy_spawned")
    /\ UNCHANGED <<reportVars, platform, args_pid, args_wait,
                   mode, sess, pid, global_processes,
                   waitVars, intVars, timedOut>>

\* Lines 134-151: subprocess.Popen raises (py-spy is not installed).  The
\* exception leaves through start_app_and_monitor's finally block, or ends
\* main with a traceback.
SpySpawnFail ==
    /\ pc = "spy_spawn"
    /\ IF mode = "start" THEN GoKill("app", "start_finally", 1) ELSE GoExit(1)
    /\ UNCHANGED <<reportVars, platform, args_pid, args_wait, launched,
                   procVars, mode, sess, pid, global_processes,
                   waitVars, intVars, timedOut>>

\* Line 153: global_processes.append(proc).
SpyRegister ==
    /\ pc = "spy_spawned"
    /\ global_processes' = Append(global_processes, "spy")
    /\ Go("spy_registered")
    /\ UNCHANGED <<reportVars, platform, args_pid, args_wait, launched,
                   procVars, mode, sess, pid, waitVars, intVars, timedOut>>

\* Lines 162-164, 187-189, 200: run_py_spy returned; the driver calls
\* proc.wait(), inside a try block in monitor_top and record_profile.
SpyWaitBegin ==
    /\ pc = "spy_registered"
    /\ Go(IF sess = "dump" THEN "dump_wait" ELSE "spy_wait")
    /\ UNCHANGED <<reportVars, platform, args_pid, args_wait, launched,
                   procVars, mode, sess, pid, global_processes,
                   waitVars, intVars, timedOut>>

\* A dispatch whose branches are not exclusive: after a driver has
\* returned, main goes on to the next test of lines 370-375.
DriverReturn_FallsThrough ==
    IF mode = "start" THEN GoKill("app", "start_finally", -1)
    ELSE Go("main_dispatch")

\* The driver returns to its caller: start_app_and_monitor runs its finally
\* block (line 255), main returns and the harness exits with status 0.
DriverReturn ==
    IF mode = "start" THEN GoKill("app", "start_finally", -1) ELSE GoExit(0)

\* Lines 164, 189, 200: proc.wait() returns once the engine has exited.
SpyWaitReturn ==
    /\ pc \in {"spy_wait", "dump_wait"}
    /\ ~IsAlive("spy")
    /\ DriverReturn
    /\ UNCHANGED <<reportVars, platform, args_pid, args_wait, launched,
                   procVars, mode, sess, pid, global_processes,
                   waitVars, intVars, timedOut>>

\* Lines 168, 193: proc.terminate() in the KeyboardInterrupt handler.
MonTerminate ==
    /\ pc = "mon_terminate"
    /\ Exits(Yielding({"spy"}))
    /\ Go("mon_wait")
    /\ UNCHANGED <<reportVars, platform, args_pid, args_wait, launched,
                   mode, sess, pid, global_processes,
                   waitVars, intVars, timedOut>>

\* Lines 169, 194: the second proc.wait().
MonWaitReturn ==
    /\ pc = "mon_wait"
    /\ ~IsAlive("spy")
    /\ DriverReturn
    /\ UNCHANGED <<reportVars, platform, args_pid, args_wait, launched,
                   procVars, mode, sess, pid, global_processes,
                   waitVars, intVars, timedOut>>

(* --------------------------- kill_process_tree ------------------------ *)

KillPcs == {"k_enter", "k_term_children", "k_wait_procs", "k_kill",
            "k_term_parent", "k_wait_parent", "k_fallback", "k_return"}

\* What kill_process_tree leaves alone.
KillFrame ==
    UNCHANGED <<reportVars, platform, args_pid, args_wait, launched,
                mode, sess, pid, global_processes, waitVars,
                exc, exitCode, histVars, kpid, kret>>

\* Lines 85-87: psutil.Process(pid) raises NoSuchProcess for a pid that is
\* not in the process table, and the clause of lines 101-102 passes;
\* otherwise the descendants are enumerated.  (A process that has exited
\* is taken to have left the table.)
KEnter ==
    /\ pc = "k_enter"
    /\ requested' = {}
    /\ sent' = {}
    /\ parentReq' = FALSE
    /\ kidx' = 1
    /\ alive' = <<>>
    /\ kAbsent' = ~IsAlive(kpid)
    /\ IF IsAlive(kpid)
       THEN children' = ChildrenOf(kpid) /\ pc' = "k_term_children"
       ELSE children' = <<>> /\ pc' = "k_return"
    /\ UNCHANGED procVars
    /\ KillFrame

\* One round of a loop over the processes `list`, lines 88-92 and 94-98:
\* signal the process; NoSuchProcess is passed over and the code goes on at
\* `gone`; any other error (AccessDenied) leaves the try block for the
\* except Exception clause of line 103.  `dying` is the set of processes the
\* signal ends, `after` is where the code goes after the loop.
KLoop(list, dying, gone, after) ==
    /\ UNCHANGED <<alive, children, parentReq, kAbsent>>
    /\ IF kidx > Len(list)
       THEN /\ pc' = after
            /\ UNCHANGED <<procVars, requested, sent, kidx>>
       ELSE LET c == list[kidx] IN
            /\ requested' = requested \cup {c}
            /\ IF ~IsAlive(c)
               THEN /\ pc' = gone
                    /\ kidx' = kidx + 1
                    /\ UNCHANGED <<procVars, sent>>
               ELSE IF kind[c] = "denied"
               THEN /\ pc' = "k_fallback"
                    /\ UNCHANGED <<procVars, sent, kidx>>
               ELSE /\ Exits(dying \cap {c})
                    /\ sent' = sent \cup {c}
                    /\ kidx' = kidx + 1
                    /\ pc' = pc
    /\ KillFrame

\* The loop of lines 88-92 without its inner try: a child that is gone
\* ends the call through the outer NoSuchProcess clause.
KTermChild_NoInnerTry ==
    /\ pc = "k_term_children"
    /\ KLoop(children, Yielding(Procs), "k_return", "k_wait_procs")

\* Lines 88-92: child.terminate() for each enumerated descendant.
KTermChild ==
    /\ pc = "k_term_children"
    /\ KLoop(children, Yielding(Procs), "k_term_children", "k_wait_procs")

\* Line 93: psutil.wait_procs(children, timeout=3) returns the children
\* still alive, when all are gone or when the grace period has run out.
KWaitProcs ==
    /\ pc = "k_wait_procs"
    /\ alive' = SelectSeq(children, IsAlive)
    /\ kidx' = 1
    /\ pc' = "k_kill"
    /\ UNCHANGED <<procVars, children, requested, sent, parentReq, kAbsent>>
    /\ KillFrame

\* Lines 94-98: p.kill() for each survivor.
KKill ==
    /\ pc = "k_kill"
    /\ KLoop(alive, Killable(Procs), "k_kill", "k_term_parent")

\* Line 99: parent.terminate().  NoSuchProcess ends the call through the
\* clause of lines 101-102; AccessDenied goes to line 103.
KTermParent ==
    /\ pc = "k_term_parent"
    /\ IF ~IsAlive(kpid)
       THEN /\ pc' = "k_return"
            /\ UNCHANGED <<procVars, sent, parentReq>>
       ELSE IF kind[kpid] = "denied"
       THEN /\ pc' = "k_fallback"
            /\ UNCHANGED <<procVars, sent, parentReq>>
       ELSE /\ Exits(Yielding({kpid}))
            /\ sent' = sent \cup {kpid}
            /\ parentReq' = TRUE
            /\ pc' = "k_wait_parent"
    /\ UNCHANGED <<children, alive, kidx, requested, kAbsent>>
    /\ KillFrame

\* Line 100: parent.wait(timeout=3) returns when the parent has exited and
\* raises TimeoutExpired, an Exception, when the grace period runs out.
KWaitParent ==
    /\ pc = "k_wait_parent"
    /\ pc' = IF IsAlive(kpid) THEN "k_fallback" ELSE "k_return"
    /\ UNCHANGED <<procVars, children, alive, kidx, requested, sent,
                   parentReq, kAbsent>>
    /\ KillFrame

\* Lines 103-110: the fallback.  os.kill(pid, SIGTERM), whose OSError is
\* passed over; on win32 taskkill /F /PID, a forced kill of pid alone whose
\* failure nobody reads.
KFallback ==
    /\ pc = "k_fallback"
    /\ LET reached == IsAlive(kpid) /\ kind[kpid] # "denied" IN
           /\ Exits(IF platform = "win32" THEN Killable({kpid}) ELSE Yielding({kpid}))
           /\ sent' = IF reached THEN sent \cup {kpid} ELSE sent
           /\ parentReq' = (parentReq \/ reached)
    /\ pc' = "k_return"
    /\ UNCHANGED <<children, alive, kidx, requested, kAbsent>>
    /\ KillFrame

\* kill_process_tree returns and its locals are gone.  After the finally
\* block of line 255 the pending exception, if any, goes on and ends the
\* harness with its status; otherwise start_app_and_monitor and main
\* return.  In the drivers, lines 168 and 193 follow.
KReturn ==
    /\ pc = "k_return"
    /\ kpid' = None
    /\ children' = <<>>
    /\ alive' = <<>>
    /\ kidx' = 1
    /\ requested' = {}
    /\ sent' = {}
    /\ parentReq' = FALSE
    /\ kAbsent' = FALSE
    /\ IF kret = "start_finally"
       THEN /\ pc' = "exited"
            /\ exitCode' = IF exc >= 0 THEN exc ELSE 0
            /\ kret' = kret
       ELSE /\ pc' = "mon_terminate"
            /\ exitCode' = exitCode
            /\ kret' = "start_finally"
    /\ UNCHANGED <<reportVars, platform, args_pid, args_wait, launched,
                   procVars, mode, sess, pid, global_processes,
                   waitVars, exc, histVars>>

(* ----------------------------- interrupts ----------------------------- *)

Range(f) == {f[i] : i \in DOMAIN f}

\* The positions inside the try block of start_app_and_monitor, lines
\* 239-249, including everything monitor_top does.
InStartTry ==
    /\ mode = "start"
    /\ \/ pc \in {"wait_loop", "wait_sleep", "wait_ret", "spy_spawn",
                  "spy_spawned", "spy_registered", "spy_wait",
                  "mon_terminate", "mon_wait"}
       \/ pc \in KillPcs /\ kret = "monitor_except"

\* signal_handler, lines 113-124, installed for SIGINT and SIGTERM where
\* sys.platform is not win32 (lines 127-129): terminate() on every handle
\* of global_processes, OSError passed over, then sys.exit(0).  If `raises`,
\* SystemExit leaves the interrupted code: no except clause of the module
\* catches it, and the finally block of line 253 runs if the try block was
\* entered.
Handler(raises) ==
    /\ platform = "posix"
    /\ Running
    /\ interrupted' = TRUE
    /\ sessCancelled' = (sessCancelled \/ pc = "spy_wait")
    /\ hreq' = hreq \cup Range(global_processes)
    /\ Exits(Yielding(Range(global_processes)))
    /\ IF raises
       THEN IF InStartTry THEN GoKill("app", "start_finally", 0) ELSE GoExit(0)
       ELSE Go(pc)
    /\ UNCHANGED <<reportVars, platform, args_pid, args_wait, launched,
                   mode, sess, pid, global_processes, waitVars, timedOut>>

\* The handler without its sys.exit(0): it returns, and the interrupted
\* call resumes.
signal_handler_returns == Handler(FALSE)

signal_handler == Handler(TRUE)

\* On win32 no handler is installed and Ctrl+C raises KeyboardInterrupt in
\* the main thread: caught by monitor_top / record_profile around
\* proc.wait() (lines 165-169, 190-194), else by start_app_and_monitor
\* (lines 251-255), else by nothing.
KeyboardInterrupt ==
    /\ platform = "win32"
    /\ Running
    /\ interrupted' = TRUE
    /\ sessCancelled' = (sessCancelled \/ pc = "spy_wait")
    /\ IF pc = "spy_wait" THEN GoKill(pid, "monitor_except", exc)
       ELSE IF InStartTry THEN GoKill("app", "start_finally", -1)
       ELSE GoExit(1)
    /\ UNCHANGED <<reportVars, platform, args_pid, args_wait, launched,
                   procVars, mode, sess, pid, global_processes,
                   waitVars, hreq, timedOut>>

(* ----------------------------- the system ----------------------------- *)

Next ==
    \/ MainList
    \/ MainStart
    \/ MainResolve
    \/ MainWait
    \/ MainDispatch
    \/ StartSpawn
    \/ StartRegister
    \/ StartTry
    \/ WaitPoll
    \/ WaitSleep
    \/ WaitReturn
    \/ SpySpawn
    \/ SpySpawnFail
    \/ SpyRegister
    \/ SpyWaitBegin
    \/ SpyWaitReturn
    \/ MonTerminate
    \/ MonWaitReturn
    \/ KEnter
    \/ KTermChild
    \/ KWaitProcs
    \/ KKill
    \/ KTermParent
    \/ KWaitParent
    \/ KFallback
    \/ KReturn
    \/ signal_handler
    \/ KeyboardInterrupt
    \/ \E w \in Workers : Fork(w)
    \/ ExtStart
    \/ \E p \in Binders : Listen(p)
    \/ \E p \in Services : ProcExit(p)
    \/ SpyExit

Spec == Init /\ [][Next]_vars

TypeOK ==
    /\ pc \in KillPcs \cup WaitPcs \cup
          {"main", "main_wait", "main_dispatch", "start_spawn", "start_spawned",
           "start_registered", "wait_ret", "spy_spawn", "spy_spawned",
           "spy_registered", "spy_wait", "dump_wait", "mon_terminate",
           "mon_wait", "exited"}
    /\ st \in [Procs -> {"none", "alive", "dead", "failed"}]
    /\ \A p \in Services : st[p] # "failed"
    /\ launched \in 0..1
    /\ args_pid \in {None, "ext"}
    /\ args_wait \in BOOLEAN
    /\ \A p \in Procs : kind[p] \in KindsOf(p)
    /\ listener \in Binders \cup {None}
    /\ kpid \in Procs \cup {None}
    /\ exitCode \in {-1, 0, 1}

(* ------------------------- report.py: the run ------------------------- *)

\* The suffixes of the artifact paths: the three load_data knows, and a
\* text file, an upper-case .SVG and a path without suffix.
Suffixes == {".svg", ".json", ".raw", ".txt", ".SVG", ""}

\* PerformanceReportGenerator(profile_file), lines 19-22, for an artifact
\* that exists: self.data is empty and load_data is about to run.
ReportInit ==
    /\ MonitorInit
    /\ platform = "posix"
    /\ st["ext"] = "none"
    /\ suffix \in Suffixes
    /\ lines \in (IF suffix = ".svg" THEN SvgArtifacts ELSE Artifacts)
    /\ matches = <<>>
    /\ data = <<>>
    /\ ridx = 1
    /\ rpc = "init"
    /\ ranked = <<>>
    /\ aidx = 1
    /\ analysis = NoAnalysis
    /\ recommendations = <<>>

\* load_data with the tab-delimited parser as the default.
load_data_DefaultsToJson ==
    /\ rpc = "init"
    /\ rpc' = IF suffix = ".svg" THEN "parse_svg" ELSE "parse_json"
    /\ UNCHANGED <<monitorVars, suffix, lines, matches, data, ridx, ranked, aidx, analysis,
                   recommendations>>

\* load_data, lines 24-32: the parser is chosen by the suffix; any other
\* suffix prints the error and calls sys.exit(1).
load_data ==
    /\ rpc = "init"
    /\ rpc' = IF suffix = ".svg" THEN "parse_svg"
              ELSE IF suffix \in JsonSuffixes THEN "parse_json"
              ELSE "exit1"
    /\ UNCHANGED <<monitorVars, suffix, lines, matches, data, ridx, ranked, aidx, analysis,
                   recommendations>>

\* The loop of lines 44-45 with an assignment in place of +=.
ParseSvgMatch_Assigns ==
    /\ rpc = "svg_loop"
    /\ ridx <= Len(matches)
    /\ data' = DictSet(data, strip(matches[ridx]), 1)
    /\ ridx' = ridx + 1
    /\ UNCHANGED <<monitorVars, suffix, lines, matches, rpc, ranked, aidx, analysis,
                   recommendations>>

\* _parse_svg, lines 38-42: the file is read whole and searched for the
\* pattern.
ParseSvgFindall ==
    /\ rpc = "parse_svg"
    /\ matches' = findall(Content(lines))
    /\ ridx' = 1
    /\ rpc' = "svg_loop"
    /\ UNCHANGED <<monitorVars, suffix, lines, data, ranked, aidx, analysis,
                   recommendations>>

\* _parse_svg, lines 44-45, one iteration: the stripped group of the match
\* counts one more.
ParseSvgMatch ==
    /\ rpc = "svg_loop"
    /\ ridx <= Len(matches)
    /\ data' = DictAdd(data, strip(matches[ridx]), 1)
    /\ ridx' = ridx + 1
    /\ UNCHANGED <<monitorVars, suffix, lines, matches, rpc, ranked, aidx, analysis,
                   recommendations>>

\* _parse_svg: every match is counted and the constructor returns.
ParseSvgEnd ==
    /\ rpc = "svg_loop"
    /\ ridx > Len(matches)
    /\ rpc' = "loaded"
    /\ UNCHANGED <<monitorVars, suffix, lines, matches, data, ridx, ranked, aidx,
                   analysis, recommendations>>

\* _parse_json, lines 55-60, one iteration: a line without a tab or with
\* fewer than two parts is skipped; int() raising ValueError is caught at
\* line 62 and the generator exits with status 1.
ParseJsonLine ==
    /\ rpc = "parse_json"
    /\ ridx <= Len(lines)
    /\ LET line == lines[ridx] IN
       IF ~Ingested(line)
       THEN /\ ridx' = ridx + 1
            /\ UNCHANGED <<data, rpc>>
       ELSE IF ~IsIntLiteral(Parts(line)[2])
       THEN /\ rpc' = "exit1"
            /\ UNCHANGED <<data, ridx>>
       ELSE /\ data' = DictAdd(data, Parts(line)[1], int(Parts(line)[2]))
            /\ ridx' = ridx + 1
            /\ rpc' = rpc
    /\ UNCHANGED <<monitorVars, suffix, lines, matches, ranked, aidx, analysis, recommendations>>

\* _parse_json: the file is exhausted and the constructor returns.
ParseJsonEnd ==
    /\ rpc = "parse_json"
    /\ ridx > Len(lines)
    /\ rpc' = "loaded"
    /\ UNCHANGED <<monitorVars, suffix, lines, matches, data, ridx, ranked, aidx, analysis,
                   recommendations>>

\* generate_text_report / generate_html_report call analyze(); lines 68-76:
\* the total, the ranking and the empty result.
AnalyzeBegin ==
    /\ rpc = "loaded"
    /\ ranked' = sorted_data(data)
    /\ aidx' = 1
    /\ analysis' = [total_samples |-> total_samples(data),
                    unique_functions |-> unique_functions(data),
                    top_functions |-> <<>>,
                    categories |-> <<>>]
    /\ rpc' = "analyze_loop"
    /\ UNCHANGED <<monitorVars, suffix, lines, matches, data, ridx, recommendations>>

\* analyze(), lines 78-87, one iteration over sorted_data[:50]: the frame
\* is appended to top_functions and its count added to its category.  (The
\* percentage of the frame, a rounded float for display, is left out.)
AnalyzeFrame ==
    /\ rpc = "analyze_loop"
    /\ aidx <= TopCount(ranked)
    /\ LET func == ranked[aidx][1]
           count == ranked[aidx][2]
           category == _categorize_function(func)
       IN analysis' = [analysis EXCEPT
                          !.top_functions = Append(@, ranked[aidx]),
                          !.categories = DictAdd(@, category, count)]
    /\ aidx' = aidx + 1
    /\ UNCHANGED <<monitorVars, suffix, lines, matches, data, ridx, rpc, ranked, recommendations>>

\* analyze(), line 89: the loop is over and analysis is returned.
AnalyzeReturn ==
    /\ rpc = "analyze_loop"
    /\ aidx > TopCount(ranked)
    /\ rpc' = "analyzed"
    /\ UNCHANGED <<monitorVars, suffix, lines, matches, data, ridx, ranked, aidx, analysis,
                   recommendations>>

\* ... and then _generate_recommendations(analysis).
Recommend ==
    /\ rpc = "analyzed"
    /\ recommendations' = _generate_recommendations(analysis)
    /\ rpc' = "reported"
    /\ UNCHANGED <<monitorVars, suffix, lines, matches, data, ridx, ranked, aidx, analysis>>

ReportNext ==
    \/ load_data
    \/ ParseSvgFindall
    \/ ParseSvgMatch
    \/ ParseSvgEnd
    \/ ParseJsonLine
    \/ ParseJsonEnd
    \/ AnalyzeBegin
    \/ AnalyzeFrame
    \/ AnalyzeReturn
    \/ Recommend

ReportSpec == ReportInit /\ [][ReportNext]_vars

(* ------------------------------- claims ------------------------------- *)

\* The processes the harness itself starts, and the tree of the service.
Spawned == {p \in {"app", "spy"} : st[p] # "none"}
ServiceTree == {"app"} \cup Workers

\* C1: in start mode, once the service has been spawned, when the harness
\* exits neither the service process nor a worker it forked is alive,
\* whichever way the run ends.
C1_NoOrphansAtExit ==
    (pc = "exited" /\ st["app"] # "none") => \A p \in ServiceTree : ~IsAlive(p)

\* C2: within kill_process_tree, no termination request reaches pid itself
\* before terminate() has been called on every enumerated descendant, on
\* the fallback path too.
C2_DescendantsBeforeParent ==
    (pc \in KillPcs /\ parentReq) => Range(children) \subseteq requested

\* C3: when kill_process_tree(pid) returns, having found pid in the process
\* table, pid and every enumerated descendant have exited, also those that
\* ignore the graceful request (in a call that got a signal through to each
\* enumerated descendant and was allowed to signal the root).
C3_TreeGoneOnReturn ==
    (pc = "k_return" /\ ~kAbsent /\ Range(children) \subseteq sent /\ kind[kpid] # "denied") =>
        (~IsAlive(kpid) /\ \A c \in Range(children) : ~IsAlive(c))

\* C4: kill_process_tree on a pid that is not in the process table returns
\* normally and signals nobody; a descendant or parent found gone at the
\* moment it is signalled is passed over, no signal is delivered for it and
\* the call carries on as in the success case.
C4_AbsentIsSuccess ==
    /\ [](pc = "k_return" /\ kAbsent => sent = {} /\ requested = {} /\ ~parentReq)
    /\ [][ /\ (pc = "k_enter" /\ ~IsAlive(kpid) /\ pc' \in KillPcs \ {"k_enter"})
              => (pc' = "k_return" /\ st' = st)
           /\ (pc \in {"k_term_children", "k_kill"} /\ kidx' = kidx + 1
                 /\ ~IsAlive((IF pc = "k_kill" THEN alive ELSE children)[kidx]))
              => (pc' = pc /\ sent' = sent /\ st' = st)
           /\ (pc = "k_term_parent" /\ ~IsAlive(kpid)
                 /\ pc' \in KillPcs \ {"k_enter", "k_term_parent"})
              => (pc' = "k_return" /\ sent' = sent /\ st' = st)
         ]_vars

\* kill_process_tree has returned from a call on a pid that was not there.
C4_Witness == pc = "k_return" /\ kAbsent /\ st[kpid] = "none"

\* The loop over the descendants went on after one of them was found gone.
C4_GoneChildPassed ==
    pc = "k_wait_procs" /\ requested \ sent # {} /\ sent # {}

\* C5: every process the harness has spawned is in global_processes, the
\* registry the interrupt handler walks, from the moment it exists; so a
\* run that was interrupted where the handler is installed ends with
\* terminate() called on each process it spawned.
C5_RegistryCoversSpawned ==
    /\ Running => Spawned \subseteq Range(global_processes)
    /\ (pc = "exited" /\ interrupted /\ platform = "posix") => Spawned \subseteq hreq

\* C6: a start-mode run that spawned the service does not end without
\* having called kill_process_tree on the service's pid.
C6_ExitThroughTerminating ==
    (pc = "exited" /\ st["app"] # "none") => termEntered

\* C7: in start mode the sampling engine exists only after
\* wait_for_app_start has returned a pid, the one monitor_top is given, and
\* the pid it returns is that of a live process listening on the port at
\* the poll.
C7_ReadyBeforeSampling ==
    /\ []((mode = "start" /\ st["spy"] # "none")
             => (wres \notin {"unset", None} /\ pid = wres))
    /\ [][(pc = "wait_loop" /\ pc' = "wait_ret" /\ wres' # None)
             => (wres' = listener /\ IsAlive(wres'))]_vars

\* The sampling engine runs in a start-mode run.
C7_Witness == mode = "start" /\ IsAlive("spy") /\ pc = "spy_wait"

\* C8: a run in which the service did not become reachable within the
\* timeout (and that nobody interrupted) ends with a non-zero exit status
\* and without a sampling engine having been started, with --start as with
\* --wait.
C8_TimeoutIsFailure ==
    (pc = "exited" /\ timedOut /\ ~interrupted) =>
        (exitCode # 0 /\ st["spy"] = "none")

\* C9: wait_for_app_start returns None only if no listener (whose pid can
\* be read) appeared on the port at a time before the timeout, and returns
\* the pid of a listener no later than one polling interval after it
\* appeared.
C9_WaitFindsListener ==
    pc = "wait_ret" =>
        /\ wres = None => (listenAt = -1 \/ listenAt >= tmo)
        /\ wres # None => (listenAt >= 0 /\ timer - listenAt <= 1)

\* The suspension points: the sleep of the readiness poll, proc.wait() of
\* a live or record session, the two grace-period waits.
Suspended == {"wait_sleep", "spy_wait", "k_wait_procs", "k_wait_parent"}

\* C10: an interrupt that arrives at a suspension point ends that wait at
\* once, without the clock advancing, and the run goes into termination
\* handling: kill_process_tree is called, or the harness exits with a
\* termination request made for every process it spawned that still runs.
C10_InterruptEndsWait ==
    [][((signal_handler \/ KeyboardInterrupt) /\ pc \in Suspended)
          => /\ pc' \notin Suspended
             /\ timer' = timer
             /\ \/ pc' = "k_enter"
                \/ /\ pc' = "exited"
                   /\ \A p \in {"app", "spy"} : st'[p] = "alive" => p \in hreq'
      ]_vars

\* C11: when an interrupt arrives during proc.wait() of a live or record
\* session, the sampling engine has been terminated by the time the harness
\* exits.
C11_EngineGoneAfterCancel ==
    (pc = "exited" /\ sessCancelled /\ sess \in {"top", "record"}) =>
        ~IsAlive("spy")

\* C12: a run whose sampling engine exited with a non-zero status, and
\* that nobody interrupted, does not end with exit status 0.
C12_EngineFailureReported ==
    (pc = "exited" /\ st["spy"] = "failed" /\ ~interrupted) => exitCode # 0

\* C13: the sampling engine is not launched for a target pid that is not
\* in the process table when the session starts.
C13_NoLaunchWithoutTarget ==
    [][(pc = "spy_spawn" /\ ~IsAlive(pid)) => ~IsAlive("spy")']_vars

\* C14: whatever the flags, run_py_spy starts at most one sampling engine
\* in an invocation (so no two ever run at once).
C14_OneEngine == launched <= 1

\* An attach run whose record session ran to its end.
C14_Witness ==
    pc = "exited" /\ mode = "attach" /\ sess = "record" /\ launched = 1
      /\ exitCode = 0

\* C15: an attach invocation with --wait, made while no service process
\* exists (so nothing listens on the port), does not end at the resolution
\* of the target: it goes on to wait_for_app_start; and the wait makes main
\* fail only once its timeout has elapsed.
C15_WaitWaits ==
    /\ [][(pc = "main" /\ mode' = "attach" /\ args_wait'
              /\ \A p \in Services : ~IsAlive(p)) => pc' # "exited"]_vars
    /\ [][(pc = "wait_ret" /\ wret = "main" /\ pc' = "exited")
              => (wres = None /\ timer >= tmo)]_vars

(* ----------------------- claims about report.py ----------------------- *)

\* The indices of the lines of the artifact that _parse_json ingests.
IngestedLines == {i \in DOMAIN lines : Ingested(lines[i])}

\* The sum of the counts written on the lines of index set S.
RECURSIVE CountSum(_)
CountSum(S) ==
    IF S = {} THEN 0
    ELSE LET i == CHOOSE i \in S : TRUE
         IN int(Parts(lines[i])[2]) + CountSum(S \ {i})

\* The artifact with its lines in another order.
Reordered(perm) == [i \in DOMAIN lines |-> lines[perm[i]]]

\* C16: for a tab-delimited artifact, analyze() returns the sum of the
\* counts of the ingested lines as total_samples and the number of distinct
\* frame names as unique_functions, and returns the same two values for
\* every reordering of the artifact's lines.
C16_TotalsOfArtifact ==
    (rpc = "analyzed" /\ suffix \in JsonSuffixes) =>
        /\ analysis.total_samples = CountSum(IngestedLines)
        /\ analysis.unique_functions
             = Cardinality({Parts(lines[i])[1] : i \in IngestedLines})
        /\ Len(lines) <= MaxLines =>
             \A perm \in Permutations(DOMAIN lines) :
                LET other == parse_json(Reordered(perm)) IN
                    /\ total_samples(other) = analysis.total_samples
                    /\ unique_functions(other) = analysis.unique_functions

\* An analysed artifact in which a frame name comes twice, apart.
C16_Witness ==
    /\ rpc = "analyzed"
    /\ suffix \in JsonSuffixes
    /\ lines = <<"run_query\t30", "await_io\t20", "run_query\t30">>
    /\ analysis.total_samples = 80
    /\ analysis.unique_functions = 2

\* The sum of the counts of the frames of self.data that are classified
\* into category.
RECURSIVE CategorySumFirst(_, _, _)
CategorySumFirst(d, category, n) ==
    IF n = 0 THEN 0
    ELSE CategorySumFirst(d, category, n - 1)
           + (IF _categorize_function(d[n][1]) = category THEN d[n][2] ELSE 0)

CategorySum(d, category) == CategorySumFirst(d, category, Len(d))

AllCategories ==
    {"async_io", "database", "cache", "http", "security", "serialization",
     "other"}

\* C17: each category total of analyze()'s result is the sum of the counts
\* of all ingested frames of that category, however many distinct frames
\* the artifact has.
C17_CategoryTotals ==
    rpc = "analyzed" =>
        \A c \in AllCategories :
            DictGet(analysis.categories, c) = CategorySum(data, c)

\* The fixed order of the categories and the keywords of each.
Priority ==
    <<"async_io", "database", "cache", "http", "security", "serialization">>

Keywords(category) ==
    CASE category = "async_io" -> {"await", "coroutine", "async"}
      [] category = "database" -> {"sql", "query", "mysql", "select", "insert"}
      [] category = "cache" -> {"redis", "cache", "get", "set"}
      [] category = "http" -> {"uvicorn", "httptools", "request"}
      [] category = "security" -> {"security", "jwt", "auth"}
      [] category = "serialization" -> {"render", "template", "json"}

\* The positions in Priority of the categories with a keyword in name.
Matching(name) ==
    LET lowered == lower(name) IN
        {i \in DOMAIN Priority :
            \E kw \in Keywords(Priority[i]) : Contains(lowered, kw)}

\* C18: every frame name of an analysed artifact gets the first category,
\* in the fixed order, that has a keyword occurring in the lowercased
\* name, and other if none has; a name with an async keyword and a
\* database keyword is async_io.
C18_FirstMatchWins ==
    rpc = "analyzed" =>
        \A name \in DictKeys(data) :
            LET m == Matching(name)
                category == _categorize_function(name)
            IN /\ category = IF m = {} THEN "other"
                             ELSE Priority[CHOOSE i \in m : \A j \in m : i <= j]
               /\ {1, 2} \subseteq m => category = "async_io"

\* An analysed artifact with a frame that has an async and a database
\* keyword, counted under async_io, and a frame with a security keyword
\* only.
C18_Witness ==
    /\ rpc = "analyzed"
    /\ \E name \in DictKeys(data) :
          /\ {1, 2} \subseteq Matching(name)
          /\ DictGet(analysis.categories, "async_io") >= DictGet(data, name)
    /\ \E name \in DictKeys(data) : Matching(name) = {5}

\* The artifact of the scenario.
Scenario == <<"handle_request\t50", "run_query\t30", "await_io\t20">>

\* C19 as the code has it: the scenario gives total 100, run_query under
\* database (30), await_io under async_io (20) and handle_request, which
\* holds the http keyword "request", under http (50), nothing under other;
\* the database recommendation is emitted, the async_io one is not.
C19_ScenarioAsCoded ==
    (rpc = "reported" /\ lines = Scenario) =>
        /\ analysis.total_samples = 100
        /\ DictGet(analysis.categories, "database") = 30
        /\ DictGet(analysis.categories, "async_io") = 20
        /\ DictGet(analysis.categories, "http") = 50
        /\ DictGet(analysis.categories, "other") = 0
        /\ \E i \in DOMAIN recommendations : recommendations[i] = "database"
        /\ \A i \in DOMAIN recommendations : recommendations[i] # "async_io"

C19_Witness == rpc = "reported" /\ lines = Scenario /\ suffix = ".raw"

\* C19 as stated: handle_request is counted under other (50).
C19_ScenarioAsStated ==
    (rpc = "reported" /\ lines = Scenario) =>
        /\ analysis.total_samples = 100
        /\ DictGet(analysis.categories, "database") = 30
        /\ DictGet(analysis.categories, "async_io") = 20
        /\ DictGet(analysis.categories, "other") = 50
        /\ \E i \in DOMAIN recommendations : recommendations[i] = "database"
        /\ \A i \in DOMAIN recommendations : recommendations[i] # "async_io"

\* The recommendation of a category is among those emitted.
Emitted(category) ==
    \E i \in DOMAIN recommendations : recommendations[i] = category

\* C20: with total_samples > 0, the database, async_io and cache
\* recommendations are emitted exactly when the category's share of the
\* total is strictly above 20%, 30% and 15%, and the no-bottleneck message
\* is emitted, alone, exactly when none of the three is.
C20_ThresholdsStrict ==
    (rpc = "reported" /\ analysis.total_samples > 0) =>
        LET total == analysis.total_samples
            share(c) == DictGet(analysis.categories, c)
        IN /\ Emitted("database") <=> share("database") * 100 > 20 * total
           /\ Emitted("async_io") <=> share("async_io") * 100 > 30 * total
           /\ Emitted("cache") <=> share("cache") * 100 > 15 * total
           /\ Emitted("no_bottleneck")
                <=> ~(Emitted("database") \/ Emitted("async_io") \/ Emitted("cache"))
           /\ Emitted("no_bottleneck") => recommendations = <<"no_bottleneck">>
           /\ ~Emitted("insufficient_data")

\* A report for an artifact whose database share is exactly 20%.
C20_Witness ==
    /\ rpc = "reported"
    /\ analysis.total_samples > 0
    /\ DictGet(analysis.categories, "database") * 100 = 20 * analysis.total_samples
    /\ ~Emitted("database")

\* C21: a report over an artifact whose total_samples is 0 recommends the
\* insufficient-data message and nothing else.
C21_ZeroTotalIsInsufficientData ==
    (rpc = "reported" /\ analysis.total_samples = 0) =>
        recommendations = <<"insufficient_data">>

\* A report over an artifact that has frames and a total of 0.
C21_Witness ==
    /\ rpc = "reported"
    /\ analysis.total_samples = 0
    /\ analysis.unique_functions > 0
    /\ recommendations = <<"insufficient_data">>

\* The frame name on each line of the artifact that _parse_json ingests,
\* "" on the other lines.
NameOnLine == [i \in DOMAIN lines |-> IF Ingested(lines[i]) THEN Parts(lines[i])[1] ELSE ""]

\* The frame names in the order in which the artifact yields them: line by
\* line in a tab-delimited artifact, match by match in a flame graph.
Encountered ==
    IF suffix = ".svg" THEN [i \in DOMAIN matches |-> strip(matches[i])]
    ELSE NameOnLine

\* The position at which the artifact first yields the frame.
FirstSeen(name) ==
    CHOOSE i \in DOMAIN Encountered :
        Encountered[i] = name /\ \A j \in 1..(i - 1) : Encountered[j] # name

\* C22: top_functions holds at most 50 frames, in non-increasing order of
\* count; it holds every frame when there are at most 50 and otherwise
\* frames with the highest counts; of two frames with the same count the one
\* met first in the artifact ranks first, and is the one kept when the list
\* is cut.
C22_TopFunctionsRanked ==
    rpc = "analyzed" =>
        LET top == analysis.top_functions
            seen == [i \in DOMAIN top |-> FirstSeen(top[i][1])]
            left == {i \in DOMAIN data : \A k \in DOMAIN top : top[k] # data[i]}
        IN /\ Len(top) = (IF Len(data) < TopLimit THEN Len(data) ELSE TopLimit)
           /\ \A k \in DOMAIN top : \E i \in DOMAIN data : data[i] = top[k]
           /\ \A k \in 1..(Len(top) - 1) :
                 \/ top[k][2] > top[k + 1][2]
                 \/ top[k][2] = top[k + 1][2] /\ seen[k] < seen[k + 1]
           /\ \A i \in left :
                 \/ data[i][2] < top[Len(top)][2]
                 \/ /\ data[i][2] = top[Len(top)][2]
                    /\ FirstSeen(data[i][1]) > seen[Len(top)]

\* An analysed artifact of 51 frames with one sample each: the first 50
\* are ranked, in the order of the artifact.
C22_Witness ==
    /\ rpc = "analyzed"
    /\ Len(data) = TopLimit + 1
    /\ Len(analysis.top_functions) = TopLimit
    /\ analysis.top_functions[1][1] = "f1"
    /\ analysis.top_functions[TopLimit][1] = "f50"

\* The frame names and sample numbers the flame graphs carry.
SvgNames == {"run_query", "handle (api.py:7)", "await_io"}
SampleNumbers == {5, 7, 30, 50}

\* The lines of the flame graph at which a title fragment with the frame
\* name ends: a whole element, with whatever sample number, or the title
\* that follows an opening tag.
FragmentsOf(name) ==
    {i \in DOMAIN lines :
        \/ \E n \in SampleNumbers : lines[i] = TitleLine(name, n)
        \/ /\ name = "await_io"
           /\ lines[i] = BareTitleLine
           /\ i > 1
           /\ lines[i - 1] = OpenTagLine}

\* C23: after a flame graph is ingested, the count of every frame is the
\* number of title fragments that carry its name, whatever sample numbers
\* stand in the titles, and no other name has a count.
C23_OnePerFragment ==
    (suffix = ".svg" /\ rpc = "loaded") =>
        /\ \A name \in SvgNames :
              DictGet(data, name) = Cardinality(FragmentsOf(name))
        /\ DictKeys(data) = {name \in SvgNames : FragmentsOf(name) # {}}

\* An ingested flame graph in which run_query has a fragment of 30 samples
\* and one of 5, and counts 2.
C23_Witness ==
    /\ suffix = ".svg"
    /\ rpc = "loaded"
    /\ lines = <<TitleLine("run_query", 30), OpenTagLine, TitleLine("run_query", 5)>>
    /\ data = <<<<"run_query", 2>>>>

\* C24: a generator constructed on a path whose suffix is none of .svg,
\* .json and .raw goes from load_data to sys.exit(1) and nowhere else: no
\* parser runs, self.data stays empty, nothing is analysed or recommended.
C24_UnsupportedFormatFails ==
    (rpc # "idle" /\ suffix \notin {".svg", ".json", ".raw"}) =>
        /\ rpc \in {"init", "exit1"}
        /\ matches = <<>>
        /\ data = <<>>
        /\ ridx = 1
        /\ analysis = NoAnalysis
        /\ recommendations = <<>>

\* The generator has exited with status 1 on an upper-case .SVG path whose
\* file has frames.
C24_Witness ==
    /\ rpc = "exit1"
    /\ suffix = ".SVG"
    /\ lines = <<"handle_request\t50", "run_query\t30", "await_io\t20">>
    /\ data = <<>>

\* C26: the generator starts from an empty mapping, every count is
\* non-negative at all times, and no step of the ingestion decreases the
\* count of a frame.
C26_CountsOnlyGrow ==
    /\ [](rpc = "init" => data = <<>>)
    /\ [](\A i \in DOMAIN data : data[i][2] >= 0)
    /\ [][\A name \in DictKeys(data) : DictGet(data', name) >= DictGet(data, name)]_vars

(* ----------------------- claims about monitor.py ---------------------- *)

\* The processes of the tree kill_process_tree tried to signal and was
\* denied: a descendant whose terminate() or kill() raised AccessDenied, or
\* pid itself when the call went through parent.terminate() or the
\* fallback.
DeniedSignal ==
    {p \in (Range(children) \cap requested) \cup {kpid} : kind[p] = "denied"}

\* C25: kill_process_tree does not return normally while a process it was
\* denied permission to signal is still alive.
C25_DeniedIsFatal ==
    (pc = "k_return" /\ ~kAbsent) => \A p \in DeniedSignal : ~IsAlive(p)

\* C27: a run that attaches to a process it did not launch sends no
\* termination request to any process but the sampling engine, neither
\* from kill_process_tree nor from signal_handler.
C27_TargetUntouched ==
    mode = "attach" => (requested \cup sent \cup hreq) \subseteq {"spy"}

\* C28: in start mode the pid the sampling engine is launched for is the
\* service the harness launched or one of its descendants, and the tree
\* kill_process_tree terminates from the finally clause holds the pid that
\* was sampled.
C28_SamplesLaunchedService ==
    (mode = "start" /\ launched > 0) =>
        /\ pid \in ServiceTree
        /\ (pc \in KillPcs /\ kret = "start_finally") => kpid = "app"

\* C29: without --list and --start the target is --pid if given, else the
\* listener on the port, else the first process found by signature; main
\* itself calls sys.exit(1), uninterrupted and before any engine is
\* launched, only if all three yield nothing; and a given --pid is the pid
\* that is sampled.
C29_TargetPriority ==
    /\ [][(pc = "main" /\ mode' = "attach") =>
            pid' = (IF args_pid' # None THEN args_pid'
                    ELSE IF find_process_by_port # None THEN find_process_by_port
                    ELSE IF find_uvicorn_processes # <<>> THEN find_uvicorn_processes[1]
                    ELSE None)]_vars
    /\ [][(pc \in {"main", "wait_ret"} /\ mode' = "attach" /\ ~interrupted'
              /\ pc' = "exited" /\ exitCode' = 1)
            => (args_pid' = None /\ find_process_by_port = None
                  /\ find_uvicorn_processes = <<>>)]_vars
    /\ []((mode = "attach" /\ launched > 0 /\ args_pid # None) => pid = args_pid)

====
